---- MODULE Spec2Model ----
(***************************************************************************)
(* The aiohttp load generator of src/tests/test_load.py as a state machine. *)
(*                                                                         *)
(* main() is cut at its clock reads and at its one real suspension, the    *)
(* await of asyncio.gather; each worker coroutine is cut at the await of   *)
(* its request.  The clock (time.perf_counter) is an integer that Tick     *)
(* advances; one unit is one second, so a latency of d units is d * 1000   *)
(* milliseconds.  Workers are asyncio tasks of one event loop: a worker     *)
(* that is resumed runs on to its next await; which worker's request ends  *)
(* next, and how, is free.                                                 *)
(***************************************************************************)
EXTENDS Integers, Sequences, FiniteSets, TLC

\* ------------------------------------------------------------------ bounds
MaxConcurrency == 2
MaxRequests == 2
MaxDuration == 1
MaxHeaders == 2
\* percentile's list: at most MaxLen values, each from 1..MaxValue
MaxLen == 4
MaxValue == 4
\* the items API: at most MaxCreates calls of create_item
MaxCreates == 2

\* the bits of a float's significand: 53 in Python, fewer here, so that the
\* rounding of each operation is kept and the numbers stay small
MantissaBits == 8
\* the clock advances this far while a request is in flight, whatever the mode
MaxTime == MaxDuration

\* --------------------------------------------------------- input alphabets
\* header strings as sequences of characters:
\* "k:v", "b", "k: v:w" and " a : b x "
HeaderStrings ==
    { <<"k", ":", "v">>,
      <<"b">>,
      <<"k", ":", " ", "v", ":", "w">>,
      <<" ", "a", " ", ":", " ", "b", " ", "x", " ">> }

HeaderLists ==
    UNION { [1..n -> HeaderStrings] : n \in 0..MaxHeaders }

\* resp.status of a response that was received and read
StatusCodes == {200, 500}

\* exception classes a request cycle can raise (type(e).__name__)
Exceptions == {"TimeoutError", "ClientConnectorError", "ValueError"}

\* isinstance(e, asyncio.TimeoutError)
IsTimeoutError(e) == e = "TimeoutError"

VARIABLES
    args,       \* argparse namespace: concurrency, duration, requests, header
    phase,      \* where main() is
    now,        \* time.perf_counter()
    headers,    \* main's headers dict
    started,    \* main's started (0 until line 173 assigns it)
    deadline,   \* main's deadline (0 until line 176 assigns it)
    q,          \* main's asyncio.Queue: _queue and _unfinished_tasks
    pc,         \* per worker task: "top", "inflight", "done", "raised"
    start,      \* per worker: start of the cycle in flight
    res,        \* per worker: latencies, statuses, errors, reqs
    results,    \* what asyncio.gather returned
    elapsed,    \* main's elapsed (0 until line 217 assigns it)
    report,     \* main's aggregation locals
    cycles,     \* history: request cycles each worker has started
    served,     \* history: per token, the workers that dequeued it, in order
    body,       \* main's json_body and data_bytes
    occurred,   \* history: how the request cycles of the run have ended
    printed,    \* what lines 246-263 print
    late,       \* history: per worker, the cycles that ended at or after the deadline
    sorted_vals, \* percentile's first argument
    p,          \* percentile's second argument
    ret,        \* what a call of percentile returned: << >> before the call
    items_db,   \* src/app/api/v1/items.py: _items_db
    item_counter, \* _item_counter
    creating,   \* the ids of the create_item calls awaiting cache.delete
    response,   \* the response to the last request that was answered
    gone,       \* history: ids deleted with success and not assigned since
    live,       \* history: ids returned by a create and not deleted since
    issued      \* history: ids that the creates so far have assigned

\* the arguments and the result of a call of percentile on its own
pvars == << sorted_vals, p, ret >>

\* the state of the items API
ivars == << items_db, item_counter, creating, response, gone, live, issued >>

\* the state of the load generator
lvars == << args, phase, now, headers, started, deadline, q, pc, start, res,
            results, elapsed, report, cycles, served, body, occurred, printed,
            late >>

vars == << lvars, pvars, ivars >>

\* ------------------------------------------------------------------ helpers
RECURSIVE SumOver(_, _)
SumOver(f, S) ==
    IF S = {} THEN 0
    ELSE LET k == CHOOSE x \in S : TRUE
         IN f[k] + SumOver(f, S \ {k})

\* sum(counter.values())
SumValues(counter) == SumOver(counter, DOMAIN counter)

\* Counter(): every key counts 0 until it is first incremented
EmptyCounter(keys) == [k \in keys |-> 0]

\* counter[key] += 1
Incr(counter, key) == [counter EXCEPT ![key] = @ + 1]

\* the class name for every exception, a timeout included
ClassName(e) == e

\* the key errors[...] is incremented under: "timeout" or the class name
ErrorKind(e) == IF IsTimeoutError(e) THEN "timeout" ELSE e

ErrorKinds == { ErrorKind(e) : e \in Exceptions }

\* ------------------------------------------------------- configuration
\* line 144 as it would read if only "neither given" were rejected
ModeCheckFailsNeitherOnly(duration, requests) == duration <= 0 /\ requests <= 0

\* the test of line 144: True means SystemExit
ModeCheckFails(duration, requests) == (duration <= 0) = (requests <= 0)

\* ":" in h
HasColon(h) == \E i \in 1..Len(h) : h[i] = ":"

\* lines 150-152 as they would read if only the first header were tested
BadHeaderFirstOnly(hs) == IF Len(hs) > 0 /\ ~HasColon(hs[1]) THEN 1 ELSE 0

\* the loop of lines 150-152 raises SystemExit at the first header without ":"
BadHeaderIndex(hs) ==
    IF \E i \in 1..Len(hs) : ~HasColon(hs[i])
    THEN CHOOSE i \in 1..Len(hs) :
            /\ ~HasColon(hs[i])
            /\ \A j \in 1..(i - 1) : HasColon(hs[j])
    ELSE 0

\* line 153: k, v = h.split(":", 1) raises ValueError when a header that
\* reaches it splits into one part
UnpackRaises(hs) == \E i \in 1..Len(hs) : ~HasColon(hs[i])

\* the place of the last ":" of h, where h.rsplit(":", 1) would split
LastColon(h) == CHOOSE i \in 1..Len(h) : h[i] = ":" /\ \A j \in (i + 1)..Len(h) : h[j] # ":"

\* h.split(":", 1): the text before and after the first ":"
FirstColon(h) == CHOOSE i \in 1..Len(h) : h[i] = ":" /\ \A j \in 1..(i - 1) : h[j] # ":"

RECURSIVE LStrip(_)
LStrip(s) == IF Len(s) > 0 /\ Head(s) = " " THEN LStrip(Tail(s)) ELSE s

RECURSIVE RStrip(_)
RStrip(s) ==
    IF Len(s) > 0 /\ s[Len(s)] = " " THEN RStrip(SubSeq(s, 1, Len(s) - 1)) ELSE s

\* str.strip()
Strip(s) == LStrip(RStrip(s))

HeaderKey(h) == Strip(SubSeq(h, 1, FirstColon(h) - 1))

HeaderValue(h) == Strip(SubSeq(h, FirstColon(h) + 1, Len(h)))

\* headers[k.strip()] = v.strip() for each h in turn: a later header wins
RECURSIVE ParseHeaders(_)
ParseHeaders(hs) ==
    IF hs = << >> THEN << >>
    ELSE LET before == ParseHeaders(SubSeq(hs, 1, Len(hs) - 1))
             h == hs[Len(hs)]
         IN [k \in (DOMAIN before) \cup {HeaderKey(h)} |->
                IF k = HeaderKey(h) THEN HeaderValue(h) ELSE before[k]]

\* ---------------------------------------------------------------- bodies
\* Python's None, and a value that is not None, as sequences of length 0 and 1
None == << >>

Some(x) == << x >>

\* args.json or args.data of an option that was not given (default=None)
NoneArg == "None"

\* values of --json: not given, a JSON text, a text that is no JSON
JsonArgs == {NoneArg, "[1]", "["}

\* values of --data: not given, a raw body
DataArgs == {NoneArg, "ab"}

\* jsonlib.loads(s) raises JSONDecodeError
JsonLoadsRaises(s) == s = "["

\* jsonlib.loads(s): the value the JSON text denotes
JsonLoads(s) == IF s = "[1]" THEN << 1 >> ELSE << >>

\* str.encode("utf-8"): the bytes of the characters
EncodeUtf8(s) == IF s = "ab" THEN << 97, 98 >> ELSE << >>

\* lines 156-162: json_body and data_bytes; the elif makes --json win
Bodies(json, data) ==
    [json_body  |-> IF json # NoneArg THEN Some(JsonLoads(json)) ELSE None,
     data_bytes |-> IF json = NoneArg /\ data # NoneArg
                    THEN Some(EncodeUtf8(data)) ELSE None]

\* dict.setdefault(key, value)
SetDefault(d, key, value) ==
    IF key \in DOMAIN d THEN d
    ELSE [k \in (DOMAIN d) \cup {key} |-> IF k = key THEN value ELSE d[k]]

\* line 160, after the headers of lines 149-154
WithContentType(hdrs, json) ==
    IF json # NoneArg
    THEN SetDefault(hdrs, << "Content-Type" >>, << "application/json" >>)
    ELSE hdrs

\* ------------------------------------------------------------ percentile
\* a float as a fraction num / den, or not-a-number, or +infinity
NaN == [kind |-> "nan", num |-> 0, den |-> 1]

Inf == [kind |-> "inf", num |-> 0, den |-> 1]

Num(n, d) == [kind |-> "num", num |-> n, den |-> d]

\* min(a, b)
Min(a, b) == IF a <= b THEN a ELSE b

\* lines 20-27 as they would read without the interpolation: the value at
\* the lower rank
LowerRank(vals, pp) == Num(vals[((Len(vals) - 1) * pp) \div 100 + 1], 1)

RECURSIVE Pow2(_)
Pow2(e) == IF e <= 0 THEN 1 ELSE 2 * Pow2(e - 1)

\* max(a, b)
Max(a, b) == IF a >= b THEN a ELSE b

\* the fraction n / d in lowest terms, for d a power of two
Reduce[n \in Nat, d \in Nat] ==
    IF d > 1 /\ n % 2 = 0 THEN Reduce[n \div 2, d \div 2] ELSE Num(n, d)

\* a significand is below 2^MantissaBits and, scaled, at least half of it
SignificandLimit == Pow2(MantissaBits)

SignificandFloor == Pow2(MantissaBits - 1)

\* the float nearest to n / d, for n / d * 2^s with a significand of
\* MantissaBits bits: the fraction is scaled until its integer part has
\* that many bits, then rounded to the nearest integer, a tie to the even one
RoundScaled[n \in Nat, d \in Nat, s \in Int] ==
    IF n \div d >= SignificandLimit THEN RoundScaled[n, 2 * d, s - 1]
    ELSE IF n \div d < SignificandFloor
    THEN IF d % 2 = 0 THEN RoundScaled[n, d \div 2, s + 1]
                      ELSE RoundScaled[2 * n, d, s + 1]
    ELSE LET whole == n \div d
             rest == n % d
             sig == IF 2 * rest > d \/ (2 * rest = d /\ whole % 2 = 1)
                    THEN whole + 1 ELSE whole
         IN IF s >= 0 THEN Reduce[sig, Pow2(s)] ELSE Num(sig * Pow2(0 - s), 1)

\* a float operation returns the float nearest to the exact result (IEEE
\* 754 round-to-nearest-even); n / d is not negative
Round(n, d) == IF n = 0 THEN Num(0, 1) ELSE RoundScaled[n, d, 0]

\* a / b for two integers taken as floats, as in p / 100.0
FDiv(a, b) == Round(a, b)

\* the floats that are numbers and not negative
Floats == [kind : {"num"}, num : Nat, den : Nat]

\* x * y
FMul[x \in Floats, y \in Floats] == Round(x.num * y.num, x.den * y.den)

\* x - y, for x >= y; the denominators are powers of two
FSub[x \in Floats, y \in Floats] ==
    LET d == Max(x.den, y.den)
    IN Round(x.num * (d \div x.den) - y.num * (d \div y.den), d)

\* x + y; the denominators are powers of two
FAdd[x \in Floats, y \in Floats] ==
    LET d == Max(x.den, y.den)
    IN Round(x.num * (d \div x.den) + y.num * (d \div y.den), d)

\* int(x) of a float that is not negative
IntOf(x) == x.num \div x.den

\* lines 20-27, for 0 < p < 100 and a list that is not empty, each float
\* operation rounded as Python rounds it; Python's sorted_vals[i] is
\* vals[i + 1] here
Interpolate(vals, pp) ==
    LET k == FMul[Num(Len(vals) - 1, 1), FDiv(pp, 100)]
        f == IntOf(k)
        c == Min(f + 1, Len(vals) - 1)
    IN IF c = f THEN Num(vals[f + 1], 1)
       ELSE LET d0 == FMul[Num(vals[f + 1], 1), FSub[Num(c, 1), k]]
                d1 == FMul[Num(vals[c + 1], 1), FSub[k, Num(f, 1)]]
            IN FAdd[d0, d1]

\* lines 12-27 as they would read with 0 in place of float("nan")
percentileZeroForEmpty(vals, pp) ==
    IF vals = << >> THEN Num(0, 1)
    ELSE IF pp <= 0 THEN Num(vals[1], 1)
    ELSE IF pp >= 100 THEN Num(vals[Len(vals)], 1)
    ELSE Interpolate(vals, pp)

\* lines 12-27
percentile(vals, pp) ==
    IF vals = << >> THEN NaN
    ELSE IF pp <= 0 THEN Num(vals[1], 1)
    ELSE IF pp >= 100 THEN Num(vals[Len(vals)], 1)
    ELSE Interpolate(vals, pp)

\* ------------------------------------------------------------- the queue
\* asyncio.Queue(): no items, no unfinished tasks
EmptyQueue == [items |-> << >>, unfinished |-> 0]

\* q.put_nowait(item)
put_nowait(queue, item) ==
    [items |-> Append(queue.items, item), unfinished |-> queue.unfinished + 1]

\* the loop of lines 196-197; the i-th token put is told apart as token i
RECURSIVE FillQueue(_, _)
FillQueue(queue, n) ==
    IF n <= 0 THEN queue ELSE put_nowait(FillQueue(queue, n - 1), n)

\* a get_nowait that raises QueueEmpty with one item still in the queue
QueueNearlyEmpty(queue) == Len(queue.items) <= 1

\* queue.get_nowait() raises QueueEmpty
QueueEmpty(queue) == Len(queue.items) = 0

\* a dequeue that puts the item taken back at the end of the queue
get_nowait_put_back(queue) == [queue EXCEPT !.items = Append(Tail(@), Head(@))]

\* queue.get_nowait(): the queue after the head item has been taken
get_nowait(queue) == [queue EXCEPT !.items = Tail(@)]

\* queue.task_done() raises ValueError when nothing is unfinished
TaskDoneRaises(queue) == queue.unfinished <= 0

\* a finally clause that also puts a token back for another attempt
task_done_requeue(queue) ==
    [items |-> Append(queue.items, 1), unfinished |-> queue.unfinished]

\* queue.task_done()
task_done(queue) == [queue EXCEPT !.unfinished = @ - 1]

\* --------------------------------------------------------------- workers
\* range(args.concurrency)
Workers == 0..(args.concurrency - 1)

\* the branch of line 175
DurationMode == args.duration > 0

\* one list and two counters that every worker call would write to
SharedResult(w) == 0

\* lines 49-52 and 92-95: latencies, statuses, errors and reqs are locals of
\* the call, one set for each worker task
ResultOf(w) == w

\* latencies, statuses, errors and reqs as the worker creates them
EmptyResult ==
    [latencies |-> << >>,
     statuses  |-> EmptyCounter(StatusCodes),
     errors    |-> EmptyCounter(ErrorKinds),
     reqs      |-> 0]

\* the except clauses without the last one, "except Exception"
CaughtWithoutLastClause(e) == e \in {"TimeoutError", "ClientConnectorError"}

\* the except clauses: which exceptions of a request cycle are caught
Caught(e) == e \in Exceptions

\* a count of the statuses below 400 only
RecordStatusBelow400(r, status) ==
    IF status < 400 THEN [r EXCEPT !.statuses = Incr(@, status)] ELSE r

\* statuses[resp.status] += 1, inside the async with
RecordStatus(r, status) == [r EXCEPT !.statuses = Incr(@, status)]

\* the else clause without its latencies.append
RecordElseNoLatency(r, t0, t1) == [r EXCEPT !.reqs = @ + 1]

\* the else clause: reqs += 1; latencies.append((now - start) * 1000.0)
RecordElse(r, t0, t1) ==
    [r EXCEPT !.reqs = @ + 1, !.latencies = Append(@, (t1 - t0) * 1000)]

\* except clauses that count every failure under one kind
RecordErrorOneKind(r, e) == [r EXCEPT !.errors = Incr(@, "ValueError")]

\* the except clauses: errors[kind] += 1
RecordError(r, e) == [r EXCEPT !.errors = Incr(@, ErrorKind(e))]

\* ------------------------------------------------------------------ Init
\* ------------------------------------------------------------ items API
\* src/app/api/v1/items.py.  An item is its id and its name; the other
\* fields of ItemBase are carried like the name.  A handler runs from its
\* dependency get_item_or_404 to its return without a suspension, except
\* create_item, which awaits cache.delete after it has stored the item.
DigitChars == << "0", "1", "2", "3", "4", "5", "6", "7", "8", "9" >>

\* str(n) for n >= 0, as the sequence of its decimal digits
RECURSIVE Str(_)
Str(n) ==
    IF n < 10 THEN << DigitChars[n + 1] >>
    ELSE Str(n \div 10) \o << DigitChars[(n % 10) + 1] >>

\* line 54: _item_counter = 2
InitialCounter == 2

\* a create that takes the counter as it is
SameCounter(counter) == counter

\* line 103: _item_counter += 1
Increment(counter) == counter + 1

\* lines 50-53: the two items the store starts with
InitialItems ==
    [id \in {Str(1), Str(2)} |->
        [id |-> id, name |-> IF id = Str(1) THEN "Widget" ELSE "Gadget"]]

\* the item_id path parameters of the requests: the ids a create can
\* assign, and one more that none assigns
PathIds == { Str(n) : n \in 1..(InitialCounter + MaxCreates + 1) }

\* ItemCreate bodies
ItemCreates == { [name |-> "a"] }

\* ItemUpdate bodies as update.model_dump(exclude_unset=True) gives them:
\* no field set, or the name set
ItemUpdates == { << >>, [name |-> "b"] }

\* app/core/exceptions.py lines 54-63: what BadRequestError answers
BadRequestError == [status |-> 400, error |-> "BAD_REQUEST"]

\* app/core/exceptions.py lines 42-51 and 105-124: what NotFoundError answers
NotFoundError == [status |-> 404, error |-> "NOT_FOUND"]

\* app/core/exceptions.py lines 170-183: any other exception
InternalError == [status |-> 500, error |-> "INTERNAL_ERROR"]

\* a response: the request it answers, its status, its error code ("" when
\* it is no error) and the item in its body
Respond(op, id, status, error, item) ==
    [op |-> op, id |-> id, status |-> status, error |-> error, item |-> item]

NoResponse == Respond("", << >>, 0, "", None)

\* line 62: item_id not in _items_db
Missing(db, id) == id \notin DOMAIN db

\* item.model_copy(update=update_data): the fields of update_data replace
\* those of the item
model_copy(item, update_data) ==
    [f \in DOMAIN item |-> IF f \in DOMAIN update_data THEN update_data[f] ELSE item[f]]

\* _items_db[item_id] = item
Store(db, id, item) ==
    [k \in (DOMAIN db) \cup {id} |-> IF k = id THEN item ELSE db[k]]

\* a delete that leaves the item in the store
Keep(db, id) == db

\* del _items_db[item_id]
Remove(db, id) == [k \in (DOMAIN db) \ {id} |-> db[k]]

\* the store, the counter and the histories as the module is imported
InitItems ==
    /\ items_db = InitialItems
    /\ item_counter = InitialCounter
    /\ creating = {}
    /\ response = NoResponse
    /\ gone = {}
    /\ live = {}
    /\ issued = {}

\* no request cycle has ended
NoOutcomes == [response |-> 0, timeout |-> 0, other |-> 0]

\* nothing is printed before line 237
NothingPrinted ==
    [completed |-> None, rps |-> None, statuses |-> None, errors |-> None,
     latency |-> None, no_success |-> FALSE]

NoReport ==
    [all_lat |-> << >>, status_counts |-> EmptyCounter(StatusCodes),
     error_counts |-> EmptyCounter(ErrorKinds), total_sent |-> 0, ok |-> 0,
     total_ok |-> 0, total_err |-> 0, total_done |-> 0]

Init ==
    /\ args \in [concurrency : 0..MaxConcurrency,
                 duration    : 0..MaxDuration,
                 requests    : 0..MaxRequests,
                 header      : {<< >>},
                 json        : {NoneArg},
                 data        : {NoneArg}]
    /\ phase = "parse"
    /\ now = 0
    /\ headers = << >>
    /\ started = 0
    /\ deadline = 0
    /\ q = EmptyQueue
    /\ pc = << >>
    /\ start = << >>
    /\ res = << >>
    /\ results = << >>
    /\ elapsed = 0
    /\ report = NoReport
    /\ cycles = << >>
    /\ served = << >>
    /\ body = Bodies(NoneArg, NoneArg)
    /\ occurred = NoOutcomes
    /\ printed = NothingPrinted
    /\ late = << >>
    /\ sorted_vals = << >>
    /\ p = 0
    /\ ret = << >>
    /\ InitItems

\* ------------------------------------------------------------ aggregation
RECURSIVE Insert(_, _)
Insert(sorted, x) ==
    IF sorted = << >> THEN << x >>
    ELSE IF x <= Head(sorted) THEN << x >> \o sorted
    ELSE << Head(sorted) >> \o Insert(Tail(sorted), x)

\* the list left in the order of the extends
Unsorted(xs) == xs

\* list.sort(), ascending
RECURSIVE Sort(_)
Sort(xs) == IF xs = << >> THEN << >> ELSE Insert(Sort(Tail(xs)), Head(xs))

\* dict.update(other): the counts of other replace those of counter
DictUpdate(counter, other) ==
    [k \in DOMAIN counter |-> IF other[k] > 0 THEN other[k] ELSE counter[k]]

\* Counter.update(other): key-wise sum
CounterUpdate(counter, other) == [k \in DOMAIN counter |-> counter[k] + other[k]]

\* one pass of the loop of lines 224-228
Merge(acc, r) ==
    [acc EXCEPT !.all_lat = @ \o r.latencies,
                !.status_counts = CounterUpdate(@, r.statuses),
                !.error_counts = CounterUpdate(@, r.errors),
                !.total_sent = @ + r.reqs + SumValues(r.errors)]

RECURSIVE MergeAll(_, _)
MergeAll(acc, rs) ==
    IF rs = << >> THEN acc ELSE MergeAll(Merge(acc, Head(rs)), Tail(rs))

\* sum(c for s, c in status_counts.items() if 200 <= s < 400)
OkCount(status_counts) ==
    SumOver(status_counts, { s \in DOMAIN status_counts : 200 <= s /\ s < 400 })

\* lines 219-234
Aggregate(rs) ==
    LET m == MergeAll(NoReport, rs)
        total_ok == SumValues(m.status_counts)
        total_err == SumValues(m.error_counts)
    IN [m EXCEPT !.all_lat = Sort(@),
                 !.ok = OkCount(m.status_counts),
                 !.total_ok = total_ok,
                 !.total_err = total_err,
                 !.total_done = total_ok + total_err]

\* ------------------------------------------------------------- the report
\* line 235 as it would read with the 2xx-3xx count in place of total_done
RpsOfOk(rep, el) == IF el > 0 THEN Num(rep.ok, el) ELSE Inf

\* line 235: rps = total_done / elapsed if elapsed > 0 else float("inf")
Rps(rep, el) == IF el > 0 THEN Num(rep.total_done, el) ELSE Inf

\* a test of line 249 that is always true
AlwaysTruthy(counter) == TRUE

\* line 249, "if error_counts": a Counter is true when it has a key, and the
\* keys of these Counters are the ones that "+= 1" has counted
CounterTruthy(counter) == \E k \in DOMAIN counter : counter[k] > 0

\* sum(all_lat)
RECURSIVE SumSeq(_)
SumSeq(xs) == IF xs = << >> THEN 0 ELSE Head(xs) + SumSeq(Tail(xs))

\* lines 253-261
LatencyBlock(all_lat) ==
    [p50 |-> percentile(all_lat, 50),
     p90 |-> percentile(all_lat, 90),
     p95 |-> percentile(all_lat, 95),
     p99 |-> percentile(all_lat, 99),
     min |-> Num(all_lat[1], 1),
     max |-> Num(all_lat[Len(all_lat)], 1),
     avg |-> Num(SumSeq(all_lat), Len(all_lat))]

\* lines 246-263: the lines whose content depends on the run
Printed(rep, el) ==
    [completed  |-> Some([done |-> rep.total_done, ok |-> rep.total_ok,
                          errors |-> rep.total_err]),
     rps        |-> Some(Rps(rep, el)),
     statuses   |-> Some(rep.status_counts),
     errors     |-> IF CounterTruthy(rep.error_counts)
                    THEN Some(rep.error_counts) ELSE None,
     latency    |-> IF rep.all_lat # << >>
                    THEN Some(LatencyBlock(rep.all_lat)) ELSE None,
     no_success |-> rep.all_lat = << >>]

\* lines 165-167: limit and limit_per_host of the TCPConnector
ConnectorLimit == args.concurrency

\* ------------------------------------------------------------------ main()
\* lines 144-171: the mode check, then the headers, then the bodies, then
\* the connector.  SystemExit is the configuration error; any other
\* exception (the unpacking of line 153, jsonlib.loads) leaves main()
Validate ==
    /\ phase = "parse"
    /\ IF ModeCheckFails(args.duration, args.requests) \/ BadHeaderIndex(args.header) # 0
       THEN /\ phase' = "config_error"
            /\ UNCHANGED << headers, body >>
       ELSE IF UnpackRaises(args.header)
       THEN /\ phase' = "raised"
            /\ UNCHANGED << headers, body >>
       ELSE IF args.json # NoneArg /\ JsonLoadsRaises(args.json)
       THEN /\ phase' = "raised"
            /\ headers' = ParseHeaders(args.header)
            /\ UNCHANGED body
       ELSE /\ phase' = "validated"
            /\ headers' = WithContentType(ParseHeaders(args.header), args.json)
            /\ body' = Bodies(args.json, args.data)
    /\ UNCHANGED << args, now, started, deadline, q, pc, start, res, results,
                    elapsed, report, cycles, served,
                    occurred, printed, late, pvars, ivars >>

\* line 173: started = time.perf_counter()
Start ==
    /\ phase = "validated"
    /\ phase' = "started"
    /\ started' = now
    /\ UNCHANGED << args, now, headers, deadline, q, pc, start, res, results,
                    elapsed, report, cycles, served,
                    body, occurred, printed, late, pvars, ivars >>

\* lines 175-192 or 195-214: the deadline or the queue, then one task per
\* element of range(args.concurrency), each with its empty locals
Spawn ==
    /\ phase = "started"
    /\ phase' = "running"
    /\ IF DurationMode
       THEN /\ deadline' = now + args.duration
            /\ UNCHANGED << q, served >>
       ELSE /\ q' = FillQueue(EmptyQueue, args.requests)
            /\ served' = [t \in 1..args.requests |-> << >>]
            /\ UNCHANGED deadline
    /\ pc' = [w \in Workers |-> "top"]
    /\ start' = [w \in Workers |-> 0]
    /\ res' = [w \in Workers |-> EmptyResult]
    /\ cycles' = [w \in Workers |-> 0]
    /\ late' = [w \in Workers |-> 0]
    /\ UNCHANGED << args, now, headers, started, results, elapsed, report,
                    body, occurred, printed, pvars, ivars >>

\* a wait that ends with the first task to return
AnyTaskDone == \E w \in Workers : pc[w] = "done"

\* asyncio.gather(*tasks) has a result once every task has returned
AllTasksDone == \A w \in Workers : pc[w] = "done"

\* lines 193 and 215: results = await asyncio.gather(*tasks), in task order;
\* an exception that leaves a worker task leaves gather and main() as well
Join ==
    /\ phase = "running"
    /\ IF \E w \in Workers : pc[w] = "raised"
       THEN /\ phase' = "raised"
            /\ UNCHANGED results
       ELSE /\ AllTasksDone
            /\ phase' = "joined"
            /\ results' = [i \in 1..Cardinality(Workers) |-> res[i - 1]]
    /\ UNCHANGED << args, now, headers, started, deadline, q, pc, start, res,
                    elapsed, report, cycles, served,
                    body, occurred, printed, late, pvars, ivars >>

\* lines 217-263: elapsed, the aggregation and the printed report
Finish ==
    /\ phase = "joined"
    /\ phase' = "reported"
    /\ elapsed' = now - started
    /\ report' = Aggregate(results)
    /\ printed' = Printed(report', elapsed')
    /\ UNCHANGED << args, now, headers, started, deadline, q, pc, start, res,
                    results, cycles, served,
                    body, occurred, late, pvars, ivars >>

\* ---------------------------------------------------------- the event loop
\* a duration-mode worker at its loop test that the model's bound on request
\* cycles keeps from starting another one before the deadline
HeldBack(w) ==
    DurationMode /\ now < deadline /\ SumValues(cycles) >= MaxRequests

\* asyncio runs a task from one await to the next before it runs anything
\* else: no response is delivered and no time passes on the model's clock
\* while a worker stands at its loop test
LoopIdle == \A v \in Workers : pc[v] = "top" => HeldBack(v)

\* ------------------------------------------------------- worker_duration
\* a loop test that is true whatever the time
AlwaysBefore(t, d) == TRUE

\* line 54: time.perf_counter() < deadline
BeforeDeadline(t, d) == t < d

\* line 54: the loop test, and lines 55-63 up to the await of the request
worker_duration_top(w) ==
    /\ phase = "running"
    /\ DurationMode
    /\ pc[w] = "top"
    /\ IF BeforeDeadline(now, deadline)
       THEN /\ SumValues(cycles) < MaxRequests
            /\ pc' = [pc EXCEPT ![w] = "inflight"]
            /\ start' = [start EXCEPT ![w] = now]
            /\ cycles' = [cycles EXCEPT ![w] = @ + 1]
       ELSE /\ pc' = [pc EXCEPT ![w] = "done"]
            /\ UNCHANGED << start, cycles >>
    /\ UNCHANGED << args, phase, now, headers, started, deadline, q, res,
                    results, elapsed, report, served,
                    body, occurred, printed, late, pvars, ivars >>

\* lines 64-67 and 74-76: the response arrives and is read; the status is
\* counted, then the else clause counts the request and its latency
worker_duration_response(w, status) ==
    /\ phase = "running"
    /\ LoopIdle
    /\ DurationMode
    /\ pc[w] = "inflight"
    /\ late' = IF now >= deadline THEN [late EXCEPT ![w] = @ + 1] ELSE late
    /\ res' = [res EXCEPT ![ResultOf(w)] = RecordElse(RecordStatus(@, status), start[w], now)]
    /\ occurred' = [occurred EXCEPT !.response = @ + 1]
    /\ pc' = [pc EXCEPT ![w] = "top"]
    /\ UNCHANGED << args, phase, now, headers, started, deadline, q, start,
                    results, elapsed, report, cycles, served,
                    body, printed, pvars, ivars >>

\* lines 68-73: the request or the read raises e
worker_duration_except(w, e) ==
    /\ phase = "running"
    /\ LoopIdle
    /\ DurationMode
    /\ pc[w] = "inflight"
    /\ late' = IF now >= deadline THEN [late EXCEPT ![w] = @ + 1] ELSE late
    /\ occurred' = IF IsTimeoutError(e)
                   THEN [occurred EXCEPT !.timeout = @ + 1]
                   ELSE [occurred EXCEPT !.other = @ + 1]
    /\ IF Caught(e)
       THEN /\ res' = [res EXCEPT ![ResultOf(w)] = RecordError(@, e)]
            /\ pc' = [pc EXCEPT ![w] = "top"]
       ELSE /\ pc' = [pc EXCEPT ![w] = "raised"]
            /\ UNCHANGED res
    /\ UNCHANGED << args, phase, now, headers, started, deadline, q, start,
                    results, elapsed, report, cycles, served,
                    body, printed, pvars, ivars >>

\* ---------------------------------------------------------- worker_total
\* an except clause that goes back to the dequeue and tries again
RetryAfterQueueEmpty == "top"

\* lines 100-101: except asyncio.QueueEmpty: break, and the return of line 127
AfterQueueEmpty == "done"

\* lines 97-111: get_nowait, then up to the await of the request
worker_total_top(w) ==
    /\ phase = "running"
    /\ ~DurationMode
    /\ pc[w] = "top"
    /\ IF QueueEmpty(q)
       THEN /\ pc' = [pc EXCEPT ![w] = AfterQueueEmpty]
            /\ UNCHANGED << q, start, cycles, served >>
       ELSE /\ q' = get_nowait(q)
            /\ served' = [served EXCEPT ![Head(q.items)] = Append(@, w)]
            /\ pc' = [pc EXCEPT ![w] = "inflight"]
            /\ start' = [start EXCEPT ![w] = now]
            /\ cycles' = [cycles EXCEPT ![w] = @ + 1]
    /\ UNCHANGED << args, phase, now, headers, started, deadline, res,
                    results, elapsed, report,
                    body, occurred, printed, late, pvars, ivars >>

\* lines 124-125, the finally clause: queue.task_done(), which raises out
\* of the worker when no token is unfinished
Finally(w, next_pc) ==
    IF TaskDoneRaises(q)
    THEN /\ pc' = [pc EXCEPT ![w] = "raised"]
         /\ UNCHANGED q
    ELSE /\ q' = task_done(q)
         /\ pc' = [pc EXCEPT ![w] = next_pc]

\* lines 112-114 and 121-125: the response arrives and is read; the status
\* is counted, the else clause counts the request and its latency, and the
\* finally clause marks the token done
worker_total_response(w, status) ==
    /\ phase = "running"
    /\ LoopIdle
    /\ ~DurationMode
    /\ pc[w] = "inflight"
    /\ res' = [res EXCEPT ![ResultOf(w)] = RecordElse(RecordStatus(@, status), start[w], now)]
    /\ occurred' = [occurred EXCEPT !.response = @ + 1]
    /\ Finally(w, "top")
    /\ UNCHANGED << args, phase, now, headers, started, deadline, start,
                    results, elapsed, report, cycles, served,
                    body, printed, late, pvars, ivars >>

\* lines 115-120 and 124-125: the request or the read raises e
worker_total_except(w, e) ==
    /\ phase = "running"
    /\ LoopIdle
    /\ ~DurationMode
    /\ pc[w] = "inflight"
    /\ occurred' = IF IsTimeoutError(e)
                   THEN [occurred EXCEPT !.timeout = @ + 1]
                   ELSE [occurred EXCEPT !.other = @ + 1]
    /\ IF Caught(e)
       THEN /\ res' = [res EXCEPT ![ResultOf(w)] = RecordError(@, e)]
            /\ Finally(w, "top")
       ELSE /\ UNCHANGED res
            /\ Finally(w, "raised")
    /\ UNCHANGED << args, phase, now, headers, started, deadline, start,
                    results, elapsed, report, cycles, served,
                    body, printed, late, pvars, ivars >>

\* ------------------------------------------------------------- the clock
\* time.perf_counter() advances while main() awaits the workers: while a
\* request is in flight, and in duration mode in any case up to the deadline.
\* The statements between two awaits take no time on this clock.
Tick ==
    /\ phase = "running"
    /\ LoopIdle
    /\ \/ now < MaxTime /\ \E w \in Workers : pc[w] = "inflight"
       \/ DurationMode /\ now < deadline
    /\ now' = now + 1
    /\ UNCHANGED << args, phase, headers, started, deadline, q, pc, start, res,
                    results, elapsed, report, cycles, served,
                    body, occurred, printed, late, pvars, ivars >>

Next ==
    \/ Validate
    \/ Start
    \/ Spawn
    \/ Join
    \/ Finish
    \/ Tick
    \/ \E w \in Workers : worker_duration_top(w)
    \/ \E w \in Workers, s \in StatusCodes : worker_duration_response(w, s)
    \/ \E w \in Workers, e \in Exceptions : worker_duration_except(w, e)
    \/ \E w \in Workers : worker_total_top(w)
    \/ \E w \in Workers, s \in StatusCodes : worker_total_response(w, s)
    \/ \E w \in Workers, e \in Exceptions : worker_total_except(w, e)

Spec == Init /\ [][Next]_vars

\* worker w's loop test and what follows it up to the request
worker_top(w) ==
    /\ w \in DOMAIN pc
    /\ worker_duration_top(w) \/ worker_total_top(w)

\* worker w's request cycle ends: with a response, a timeout or an error
worker_cycle_end(w) ==
    /\ w \in DOMAIN pc
    /\ \/ \E status \in StatusCodes :
             worker_duration_response(w, status) \/ worker_total_response(w, status)
       \/ \E e \in Exceptions :
             worker_duration_except(w, e) \/ worker_total_except(w, e)

\* the event loop runs main() and every worker task that can run, every
\* request cycle ends (aiohttp's total timeout bounds it), and the clock
\* advances
Fairness ==
    /\ WF_vars(Validate)
    /\ WF_vars(Start)
    /\ WF_vars(Spawn)
    /\ WF_vars(Join)
    /\ WF_vars(Finish)
    /\ WF_vars(Tick)
    /\ \A w \in 0..(MaxConcurrency - 1) :
          WF_vars(worker_top(w)) /\ WF_vars(worker_cycle_end(w))

SpecFair == Init /\ [][Next]_vars /\ Fairness

\* ------------------------------------------------- the configuration runs
\* the same program started on a wider range of arguments (negative
\* numbers, several headers) and at most one worker and one request
InitConfig ==
    /\ args \in [concurrency : (0 - 1)..1,
                 duration    : (0 - 1)..1,
                 requests    : (0 - 1)..1,
                 header      : HeaderLists,
                 json        : JsonArgs,
                 data        : DataArgs]
    /\ phase = "parse"
    /\ now = 0
    /\ headers = << >>
    /\ started = 0
    /\ deadline = 0
    /\ q = EmptyQueue
    /\ pc = << >>
    /\ start = << >>
    /\ res = << >>
    /\ results = << >>
    /\ elapsed = 0
    /\ report = NoReport
    /\ cycles = << >>
    /\ served = << >>
    /\ body = Bodies(NoneArg, NoneArg)
    /\ occurred = NoOutcomes
    /\ printed = NothingPrinted
    /\ late = << >>
    /\ sorted_vals = << >>
    /\ p = 0
    /\ ret = << >>
    /\ InitItems

SpecConfig == InitConfig /\ [][Next]_vars

\* ------------------------------------------------- percentile on its own
\* sorted_vals[i] <= sorted_vals[i + 1] throughout: what list.sort() leaves
Ascending(xs) == \A i \in 1..(Len(xs) - 1) : xs[i] <= xs[i + 1]

\* the sorted lists of up to MaxLen values from 1..MaxValue
SortedLists ==
    { xs \in UNION { [1..n -> 1..MaxValue] : n \in 0..MaxLen } : Ascending(xs) }

\* the values of p: every whole percent, and one below 0 and one above 100
Percents == (0 - 1)..101

\* a call of percentile(sorted_vals, p) outside any run of main()
InitPercentile ==
    /\ args = [concurrency |-> 1, duration |-> 0, requests |-> 1,
               header |-> << >>, json |-> NoneArg, data |-> NoneArg]
    /\ phase = "parse"
    /\ now = 0
    /\ headers = << >>
    /\ started = 0
    /\ deadline = 0
    /\ q = EmptyQueue
    /\ pc = << >>
    /\ start = << >>
    /\ res = << >>
    /\ results = << >>
    /\ elapsed = 0
    /\ report = NoReport
    /\ cycles = << >>
    /\ served = << >>
    /\ body = Bodies(NoneArg, NoneArg)
    /\ occurred = NoOutcomes
    /\ printed = NothingPrinted
    /\ late = << >>
    /\ sorted_vals \in SortedLists
    /\ p \in Percents
    /\ ret = << >>
    /\ InitItems

\* the call returns
percentile_call ==
    /\ ret = << >>
    /\ ret' = << percentile(sorted_vals, p) >>
    /\ UNCHANGED << args, phase, now, headers, started, deadline, q, pc, start,
                    res, results, elapsed, report, cycles, served, body,
                    occurred, printed, late, sorted_vals, p, ivars >>

NextPercentile == percentile_call

SpecPercentile == InitPercentile /\ [][NextPercentile]_vars

\* --------------------------------------------------- items API requests
\* lines 58-64 and 123-127: GET /items/{item_id}
get_item(id) ==
    /\ response' = IF Missing(items_db, id)
                   THEN Respond("GET", id, NotFoundError.status, NotFoundError.error, None)
                   ELSE Respond("GET", id, 200, "", Some(items_db[id]))
    /\ UNCHANGED << items_db, item_counter, creating, gone, live, issued,
                    lvars, pvars >>

\* lines 58-64 and 136-148: PUT /items/{item_id}
update_item(id, update_data) ==
    /\ IF Missing(items_db, id)
       THEN /\ response' = Respond("PUT", id, NotFoundError.status,
                                   NotFoundError.error, None)
            /\ UNCHANGED items_db
       ELSE LET updated_item == model_copy(items_db[id], update_data)
            IN /\ items_db' = Store(items_db, id, updated_item)
               /\ response' = Respond("PUT", id, 200, "", Some(updated_item))
    /\ UNCHANGED << item_counter, creating, gone, live, issued, lvars, pvars >>

\* lines 58-64 and 157-166: DELETE /items/{item_id}
delete_item(id) ==
    /\ IF Missing(items_db, id)
       THEN /\ response' = Respond("DELETE", id, NotFoundError.status,
                                   NotFoundError.error, None)
            /\ UNCHANGED << items_db, gone, live >>
       ELSE /\ items_db' = Remove(items_db, id)
            /\ response' = Respond("DELETE", id, 200, "", None)
            /\ gone' = gone \cup {id}
            /\ live' = live \ {id}
    /\ UNCHANGED << item_counter, creating, issued, lvars, pvars >>

\* lines 100-112: POST /items up to the await of cache.delete
create_item(item) ==
    /\ item_counter < InitialCounter + MaxCreates
    /\ item_counter' = Increment(item_counter)
    /\ LET item_id == Str(Increment(item_counter))
           new_item == [id |-> item_id, name |-> item.name]
       IN /\ items_db' = Store(items_db, item_id, new_item)
          /\ creating' = creating \cup {new_item}
          /\ gone' = gone \ {item_id}
          /\ issued' = issued \cup {item_id}
    /\ UNCHANGED << response, live, lvars, pvars >>

\* lines 112-114: cache.delete returns and the new item is the 201 response,
\* or cache.delete raises (Redis cannot be reached) and the response is 500
create_item_return(new_item, cache_raises) ==
    /\ new_item \in creating
    /\ creating' = creating \ {new_item}
    /\ IF cache_raises
       THEN /\ response' = Respond("POST", << >>, InternalError.status,
                                   InternalError.error, None)
            /\ UNCHANGED live
       ELSE /\ response' = Respond("POST", << >>, 201, "", Some(new_item))
            /\ live' = IF new_item.id \in gone THEN live ELSE live \cup {new_item.id}
    /\ UNCHANGED << items_db, item_counter, gone, issued, lvars, pvars >>

NextItems ==
    \/ \E id \in PathIds : get_item(id)
    \/ \E id \in PathIds, update_data \in ItemUpdates : update_item(id, update_data)
    \/ \E id \in PathIds : delete_item(id)
    \/ \E item \in ItemCreates : create_item(item)
    \/ \E new_item \in creating, cache_raises \in BOOLEAN :
          create_item_return(new_item, cache_raises)

\* the items API on its own, with no load generator running
InitApi ==
    /\ args = [concurrency |-> 1, duration |-> 0, requests |-> 1,
               header |-> << >>, json |-> NoneArg, data |-> NoneArg]
    /\ phase = "parse"
    /\ now = 0
    /\ headers = << >>
    /\ started = 0
    /\ deadline = 0
    /\ q = EmptyQueue
    /\ pc = << >>
    /\ start = << >>
    /\ res = << >>
    /\ results = << >>
    /\ elapsed = 0
    /\ report = NoReport
    /\ cycles = << >>
    /\ served = << >>
    /\ body = Bodies(NoneArg, NoneArg)
    /\ occurred = NoOutcomes
    /\ printed = NothingPrinted
    /\ late = << >>
    /\ sorted_vals = << >>
    /\ p = 0
    /\ ret = << >>
    /\ InitItems

SpecItems == InitApi /\ [][NextItems]_vars

\* ---------------------------------------------------------------- claims
Spawned == phase \in {"running", "joined", "reported"}

RunEnded == phase \in {"joined", "reported"}

CountMode == Spawned /\ ~DurationMode

\* the tokens worker w has dequeued
TokensOf(w) == { t \in DOMAIN served : \E i \in 1..Len(served[t]) : served[t][i] = w }

InQueue(t) == \E i \in 1..Len(q.items) : q.items[i] = t

\* C1: in fixed-count mode every token put in the queue is dequeued by
\* exactly one worker exactly once: never twice, and at the end of the run
\* none is left undequeued, so the request cycles started number request_count.
C1_EveryTokenServedExactlyOnce ==
    CountMode =>
        /\ \A t \in DOMAIN served : Len(served[t]) <= 1
        /\ RunEnded =>
              /\ \A t \in 1..args.requests : Len(served[t]) = 1
              /\ SumValues(cycles) = args.requests

\* C1 where at least one worker is spawned: the same statement holds.
C1_ServedExactlyOnceWithWorkers ==
    args.concurrency >= 1 => C1_EveryTokenServedExactlyOnce

\* C2: in fixed-count mode the report of a finished run has
\* total completed + total errored = request_count.
C2_ReportTotalsEqualRequestCount ==
    (phase = "reported" /\ CountMode) =>
        /\ report.total_ok + report.total_err = args.requests
        /\ report.total_done = args.requests

\* C2 where at least one worker is spawned: the same statement holds.
C2_TotalsWithWorkers ==
    args.concurrency >= 1 => C2_ReportTotalsEqualRequestCount

\* C3: in fixed-count mode, for every configuration that passed validation,
\* the token queue is empty once all workers have returned.
C3_QueueEmptyAtRunEnd ==
    (RunEnded /\ CountMode) => Len(q.items) = 0

\* C3 where at least one worker is spawned: the same statement holds.
C3_QueueEmptyWithWorkers ==
    args.concurrency >= 1 => C3_QueueEmptyAtRunEnd

\* what a WorkerResult must satisfy after n finished request cycles
ResultConsistent(r, n) ==
    /\ r.reqs = Len(r.latencies)
    /\ SumValues(r.statuses) = r.reqs
    /\ SumValues(r.statuses) + SumValues(r.errors) = n

\* C4: for every worker, in either mode, at every loop boundary and in the
\* WorkerResult it returns, completed = len(latencies), the status counts
\* sum to completed, and every finished cycle has added exactly one to
\* exactly one bucket (status counts + error counts = finished cycles).
C4_OneBucketPerCycle ==
    /\ \A w \in DOMAIN res :
          ResultConsistent(res[w], IF pc[w] = "inflight" THEN cycles[w] - 1 ELSE cycles[w])
    /\ \A i \in DOMAIN results : ResultConsistent(results[i], cycles[i - 1])

C4_Witness ==
    /\ phase = "joined"
    /\ \E i \in DOMAIN results :
          /\ results[i].reqs >= 1
          /\ SumValues(results[i].errors) >= 1

\* C5: in duration mode no worker has returned before the deadline has
\* passed, and the elapsed time of the run is at least duration_seconds.
C5_NoReturnBeforeDeadline ==
    (Spawned /\ DurationMode) =>
        /\ \A w \in Workers : pc[w] = "done" => now >= deadline
        /\ phase = "reported" => elapsed >= args.duration

\* C5 where at least one worker is spawned: the same statement holds.
C5_DeadlineWithWorkers ==
    args.concurrency >= 1 => C5_NoReturnBeforeDeadline

\* C6: aggregation starts only after every spawned worker has returned: from
\* the join on, every worker is done (none in flight), the gathered results
\* are those of all the workers, and the report counts every cycle of every
\* worker.
C6_AggregationAfterAllWorkersReturned ==
    /\ RunEnded =>
          /\ \A w \in Workers : pc[w] = "done"
          /\ Len(results) = Cardinality(Workers)
          /\ \A w \in Workers : results[w + 1] = res[w]
    /\ phase = "reported" =>
          /\ report.total_sent = SumValues(cycles)
          /\ Len(report.all_lat) = SumOver([w \in Workers |-> res[w].reqs], Workers)

C6_Witness ==
    /\ phase = "reported"
    /\ Cardinality(Workers) = 2
    /\ \A w \in Workers : cycles[w] >= 1

\* a worker has returned only for its mode's reason
ReturnedForCause(w) ==
    IF DurationMode THEN now >= deadline ELSE QueueEmpty(q)

\* the run is over: the report or the configuration error
Terminal == phase \in {"reported", "config_error"}

\* some worker has a step to take
WorkerStep ==
    \E w \in Workers :
        \/ worker_duration_top(w)
        \/ worker_total_top(w)
        \/ \E s \in StatusCodes :
              worker_duration_response(w, s) \/ worker_total_response(w, s)
        \/ \E e \in Exceptions :
              worker_duration_except(w, e) \/ worker_total_except(w, e)

\* the run is over or has a step to take: main()'s next statement, a worker's
\* step, the clock towards the deadline, or the join (Finish has no guard but
\* its phase)
RunCanProceed ==
    \/ Terminal
    \/ phase = "parse" /\ ENABLED Validate
    \/ phase = "validated" /\ ENABLED Start
    \/ phase = "started" /\ ENABLED Spawn
    \/ phase = "running" /\ (ENABLED WorkerStep \/ ENABLED Tick \/ ENABLED Join)
    \/ phase = "joined"

\* C7: a failed request cycle (timeout, client error, any other exception)
\* never ends its worker or the run: no worker task ever raises, every
\* failure is counted, a worker returns only at its deadline or on the empty
\* queue, and the run can always go on until it has reported.
C7_FailuresAreNotFatal ==
    /\ \A w \in DOMAIN pc :
          /\ pc[w] \in {"top", "inflight", "done"}
          /\ pc[w] = "done" => ReturnedForCause(w)
          /\ SumValues(res[w].errors) + res[w].reqs
                = (IF pc[w] = "inflight" THEN cycles[w] - 1 ELSE cycles[w])
    /\ phase # "raised"
    /\ RunCanProceed

\* every request of a run of two or more failed, and the run has reported
C7_Witness ==
    /\ phase = "reported"
    /\ report.total_ok = 0
    /\ report.total_err >= 2
    /\ report.error_counts["ValueError"] >= 1

\* cycles of worker w that have ended
Finished(w) == IF pc[w] = "inflight" THEN cycles[w] - 1 ELSE cycles[w]

\* C8: no request is retried: a worker has started exactly as many request
\* cycles as it has passed the loop test (in fixed-count mode: as it has
\* dequeued tokens), every ended cycle is counted once, as one success or one
\* error, and a token once dequeued is never in the queue again.
C8_NoRetry ==
    Spawned =>
        /\ \A w \in Workers :
              res[w].reqs + SumValues(res[w].errors) = Finished(w)
        /\ ~DurationMode =>
              /\ \A w \in Workers : cycles[w] = Cardinality(TokensOf(w))
              /\ \A t \in DOMAIN served : InQueue(t) => served[t] = << >>
              /\ Len(q.items) + SumValues(cycles) = args.requests

C8_Witness ==
    /\ phase = "joined"
    /\ ~DurationMode
    /\ \E w \in Workers : SumValues(res[w].errors) = 2 /\ cycles[w] = 2

Positive(x) == x > 0

ExactlyOnePositive ==
    \/ Positive(args.duration) /\ ~Positive(args.requests)
    \/ Positive(args.requests) /\ ~Positive(args.duration)

\* header i has no ":" at any position
LacksColon(h) == \A j \in 1..Len(h) : h[j] # ":"

NothingSpawned ==
    /\ pc = << >>
    /\ cycles = << >>
    /\ served = << >>
    /\ q = EmptyQueue

C10_BadHeaderIsFatal ==
    (phase # "parse" /\ \E i \in 1..Len(args.header) : LacksColon(args.header[i])) =>
        /\ phase = "config_error"
        /\ NothingSpawned

C10_Witness ==
    /\ phase = "config_error"
    /\ ExactlyOnePositive
    /\ Len(args.header) = 2
    /\ ~LacksColon(args.header[1])
    /\ LacksColon(args.header[2])

BothBodies == args.json # NoneArg /\ args.data # NoneArg

\* C11: when both a JSON body and a raw body are supplied the run ends in
\* the configuration error: no worker is spawned, no token is put or dequeued
\* and no request cycle is started.
C11_BothBodiesIsFatal ==
    (phase # "parse" /\ BothBodies) =>
        /\ phase = "config_error"
        /\ NothingSpawned

\* what the code does with both bodies once the mode and the headers have
\* passed: no configuration error; the JSON body is parsed (or jsonlib.loads
\* raises) and the raw body is dropped.
C11_JsonWinsOverData ==
    (phase # "parse" /\ BothBodies /\ ExactlyOnePositive
        /\ \A i \in 1..Len(args.header) : ~LacksColon(args.header[i])) =>
        /\ phase # "config_error"
        /\ phase # "raised" =>
              /\ body.json_body # None
              /\ body.data_bytes = None

\* the sum over the gathered WorkerResults of the workers' completed counts
SumCompleted == SumOver([i \in DOMAIN results |-> results[i].reqs], DOMAIN results)

\* the sum over the gathered WorkerResults of all their error counts
SumErrored ==
    SumOver([i \in DOMAIN results |-> SumValues(results[i].errors)], DOMAIN results)

\* C12: the report's totals are the sums over all WorkerResults: total
\* completed (derived from the merged status-code map) is the sum of the
\* workers' completed counts, total errored is the sum of all workers' error
\* counts, total done is their sum and equals the separately accumulated sum
\* of requests + errors per worker; the Completed line prints these.
C12_TotalsAreSumsOverWorkers ==
    phase = "reported" =>
        /\ report.total_ok = SumCompleted
        /\ report.total_err = SumErrored
        /\ report.total_done = report.total_ok + report.total_err
        /\ report.total_done = report.total_sent
        /\ printed.completed = Some([done |-> SumCompleted + SumErrored,
                                     ok |-> SumCompleted, errors |-> SumErrored])

C12_Witness ==
    /\ phase = "reported"
    /\ Len(results) = 2
    /\ results[1].reqs = 1
    /\ results[2].reqs = 1
    /\ results[1].statuses = results[2].statuses

\* the orders in which n WorkerResults can be merged
MergeOrders(n) ==
    { f \in [1..n -> 1..n] : \A i, j \in 1..n : f[i] = f[j] => i = j }

\* the gathered results taken in the order f
Reordered(f) == [i \in 1..Len(results) |-> results[f[i]]]

\* C13: aggregation is a commutative merge: merging the gathered
\* WorkerResults in any order gives the same merged status-code counts, the
\* same merged error-kind counts, the same totals and the same sorted latency
\* sequence, which are the ones of the report.
C13_MergeIsCommutative ==
    RunEnded =>
        /\ \A f \in MergeOrders(Len(results)) :
              LET a == Aggregate(Reordered(f))
                  b == Aggregate(results)
              IN /\ a.status_counts = b.status_counts
                 /\ a.error_counts = b.error_counts
                 /\ a.total_ok = b.total_ok
                 /\ a.total_err = b.total_err
                 /\ a.total_done = b.total_done
                 /\ a.total_sent = b.total_sent
                 /\ a.ok = b.ok
                 /\ a.all_lat = b.all_lat
        /\ phase = "reported" => report = Aggregate(results)

\* two workers whose results differ in every part, the later latency first
C13_Witness ==
    /\ phase = "reported"
    /\ Len(results) = 2
    /\ results[1].latencies = << 1000 >>
    /\ results[2].latencies = << 0 >>
    /\ results[1].statuses # results[2].statuses

\* the error kinds other than "timeout"
OtherKinds == (DOMAIN report.error_counts) \ {"timeout"}

\* C14: the report counts exactly the outcomes that occurred: with s request
\* cycles of the run ended by a response, t by a timeout and e by another
\* failure, on whichever workers, the report has total completed = s, total
\* errored = t + e, status counts that sum to s, error counts with timeout = t
\* and the other kinds summing to e, and exactly s latencies.
C14_ReportCountsWhatOccurred ==
    phase = "reported" =>
        /\ report.total_ok = occurred.response
        /\ report.total_err = occurred.timeout + occurred.other
        /\ SumValues(report.status_counts) = occurred.response
        /\ report.error_counts["timeout"] = occurred.timeout
        /\ SumOver(report.error_counts, OtherKinds) = occurred.other
        /\ Len(report.all_lat) = occurred.response
        /\ printed.completed[1].ok = occurred.response
        /\ printed.completed[1].errors = occurred.timeout + occurred.other

\* a timeout on one worker and another failure on the other, in one run
C14_Witness ==
    /\ phase = "reported"
    /\ Cardinality(Workers) = 2
    /\ occurred.timeout = 1
    /\ occurred.other = 1
    /\ \A w \in Workers : cycles[w] = 1

\* worker w's request cycle ends with a response of this status, read in full
ResponseStep(w, status) ==
    worker_duration_response(w, status) \/ worker_total_response(w, status)

\* the step has counted one success of this status for w and nothing else
CountedAsSuccess(w, status) ==
    /\ res'[w].statuses = [res[w].statuses EXCEPT ![status] = @ + 1]
    /\ res'[w].reqs = res[w].reqs + 1
    /\ Len(res'[w].latencies) = Len(res[w].latencies) + 1
    /\ SubSeq(res'[w].latencies, 1, Len(res[w].latencies)) = res[w].latencies
    /\ res'[w].errors = res[w].errors
    /\ \A v \in Workers \ {w} : res'[v] = res[v]

\* C15: a request cycle whose response is received and read is a success
\* whatever the status code: a 4xx or 5xx response, like any other, adds one
\* to its status-code bucket, one to completed and one latency, and nothing
\* to any error-kind bucket.
C15_AnyStatusIsSuccess ==
    [][\A w \in Workers, status \in StatusCodes :
          ResponseStep(w, status) => CountedAsSuccess(w, status)]_vars

\* a worker whose only ended cycles are 500 responses
C15_Witness ==
    \E w \in DOMAIN res :
        /\ res[w].statuses[500] >= 1
        /\ res[w].reqs = res[w].statuses[500]
        /\ Len(res[w].latencies) = res[w].reqs
        /\ SumValues(res[w].errors) = 0

\* worker w's request cycle ends with exception e
ExceptStep(w, e) == worker_duration_except(w, e) \/ worker_total_except(w, e)

\* the step has counted one error of this kind for w and nothing else
CountedAsError(w, kind) ==
    /\ kind \in DOMAIN res'[w].errors
    /\ DOMAIN res'[w].errors = DOMAIN res[w].errors
    /\ \A k \in DOMAIN res[w].errors :
          res'[w].errors[k] = res[w].errors[k] + (IF k = kind THEN 1 ELSE 0)
    /\ res'[w].statuses = res[w].statuses
    /\ res'[w].reqs = res[w].reqs
    /\ res'[w].latencies = res[w].latencies
    /\ \A v \in Workers \ {w} : res'[v] = res[v]

\* C16: a request cycle that times out is recorded under the error kind
\* "timeout", under no other kind and under no status code; any other
\* failure is recorded under exactly one kind, the one its category (its
\* exception class) determines; neither adds a latency or a completed request.
C16_FailuresCountedByKind ==
    [][\A w \in Workers, e \in Exceptions :
          ExceptStep(w, e) =>
              CountedAsError(w, IF e = "TimeoutError" THEN "timeout" ELSE e)]_vars

\* a worker that has recorded a timeout and a failure of another kind
C16_Witness ==
    \E w \in DOMAIN res :
        /\ res[w].errors["timeout"] = 1
        /\ res[w].errors["ClientConnectorError"] = 1
        /\ res[w].reqs = 0
        /\ res[w].latencies = << >>
        /\ SumValues(res[w].statuses) = 0

Returned == ret # << >>

\* C17: percentile on boundary inputs: for every p an empty list gives
\* not-a-number, which is no number; for every ascending list that is not
\* empty, p <= 0 gives the first element, which is the minimum, and p >= 100
\* gives the last element, which is the maximum.
C17_PercentileBoundaries ==
    Returned =>
        /\ sorted_vals = << >> => ret[1] = NaN /\ ret[1].kind # "num"
        /\ (sorted_vals # << >> /\ p <= 0) =>
              /\ ret[1] = Num(sorted_vals[1], 1)
              /\ \A i \in DOMAIN sorted_vals : sorted_vals[1] <= sorted_vals[i]
        /\ (sorted_vals # << >> /\ p >= 100) =>
              /\ ret[1] = Num(sorted_vals[Len(sorted_vals)], 1)
              /\ \A i \in DOMAIN sorted_vals :
                    sorted_vals[i] <= sorted_vals[Len(sorted_vals)]

\* a call on the empty list at a p inside the range
C17_WitnessEmpty ==
    /\ Returned
    /\ sorted_vals = << >>
    /\ p = 50

\* a call at p = 100 on a list whose maximum is not its minimum
C17_Witness ==
    /\ Returned
    /\ Len(sorted_vals) = MaxLen
    /\ sorted_vals[1] < sorted_vals[MaxLen]
    /\ p = 100

\* the float x is the fraction n / d
IsFraction(x, n, d) == x.kind = "num" /\ x.num * d = n * x.den

\* the rank k = (n-1)*(p/100) of the call, as a float
RankOf(n, pp) == FMul[Num(n - 1, 1), FDiv(pp, 100)]

\* the floor of the rank among the indexes 0..n-1
FloorOf(n, k) ==
    CHOOSE i \in 0..(n - 1) : i * k.den <= k.num /\ k.num < (i + 1) * k.den

\* C18: for an ascending list of n >= 1 values and 0 < p < 100, with
\* k = (n-1)*p/100, f = floor(k) and c = min(f+1, n-1), percentile returns
\* values[f] when c = f and values[f]*(c-k) + values[c]*(k-f) otherwise,
\* the sum of the two float products; percentile([1,2,3,4], 50) = 2.5.
C18_PercentileInterpolates ==
    (Returned /\ sorted_vals # << >> /\ 0 < p /\ p < 100) =>
        LET n == Len(sorted_vals)
            k == RankOf(n, p)
            f == FloorOf(n, k)
            c == IF f + 1 <= n - 1 THEN f + 1 ELSE n - 1
        IN /\ c = f => IsFraction(ret[1], sorted_vals[f + 1], 1)
           /\ c # f =>
                 ret[1] = FAdd[FMul[Num(sorted_vals[f + 1], 1), FSub[Num(c, 1), k]],
                               FMul[Num(sorted_vals[c + 1], 1), FSub[k, Num(f, 1)]]]
           /\ (sorted_vals = << 1, 2, 3, 4 >> /\ p = 50) => IsFraction(ret[1], 5, 2)

C18_Witness ==
    /\ Returned
    /\ sorted_vals = << 1, 2, 3, 4 >>
    /\ p = 50
    /\ IsFraction(ret[1], 5, 2)

\* the failures of the run, of every kind
Failures == occurred.timeout + occurred.other

\* C19: the report has the latency block (p50, p90, p95, p99, min, max, avg)
\* if and only if at least one request cycle of the run succeeded, and has
\* the "no successful responses" message in its place otherwise; it has the
\* error-kind histogram if and only if at least one error was counted.
C19_ReportSections ==
    phase = "reported" =>
        /\ printed.latency # None <=> occurred.response >= 1
        /\ printed.no_success <=> occurred.response = 0
        /\ printed.no_success <=> printed.latency = None
        /\ printed.latency # None =>
              /\ printed.latency[1] = LatencyBlock(report.all_lat)
              /\ printed.latency[1].p50.kind = "num"
              /\ printed.latency[1].min = Num(report.all_lat[1], 1)
        /\ printed.errors # None <=> Failures >= 1
        /\ printed.errors # None => printed.errors = Some(report.error_counts)

\* a run with a success and a failure: both sections are printed
C19_Witness ==
    /\ phase = "reported"
    /\ occurred.response = 1
    /\ Failures = 1
    /\ printed.latency # None
    /\ printed.errors # None
    /\ ~printed.no_success

\* a run whose every request failed: the message and the error histogram
C19_WitnessNoSuccess ==
    /\ phase = "reported"
    /\ occurred.response = 0
    /\ Failures >= 1
    /\ printed.no_success
    /\ printed.latency = None
    /\ printed.errors # None

\* C20: RPS is total_done / elapsed, where total_done counts every completed
\* request, those of status 400 and above included, and every errored one,
\* not the 2xx-3xx count; it is +infinity when elapsed <= 0; and with
\* elapsed > 0 it is zero only if total_done = 0.
C20_RpsCountsEveryRequest ==
    phase = "reported" =>
        LET rps == printed.rps[1]
            total == occurred.response + occurred.timeout + occurred.other
        IN /\ printed.rps # None
           /\ report.total_done = total
           /\ elapsed <= 0 => rps = Inf
           /\ elapsed > 0 =>
                 /\ rps.kind = "num"
                 /\ rps.num * elapsed = total * rps.den
                 /\ rps.num = 0 => total = 0

\* a run that took time, with a 500 response and a failure and no 2xx
C20_Witness ==
    /\ phase = "reported"
    /\ elapsed > 0
    /\ report.status_counts[500] = 1
    /\ report.total_err = 1
    /\ report.ok = 0
    /\ printed.rps = Some(Num(2, elapsed))

\* a run that took no time on the clock: +infinity, whatever was done
C20_WitnessInf ==
    /\ phase = "reported"
    /\ elapsed = 0
    /\ report.total_done >= 1
    /\ printed.rps = Some(Inf)

\* the headers have been parsed
Parsed == phase \in {"validated", "started", "running", "joined", "reported"}

\* the entry each well-formed header string of the model must give: the
\* text before the first ":" and the text after it, both without the
\* whitespace around them
Entry(h) ==
    IF h = <<"k", ":", "v">>
    THEN [key |-> <<"k">>, value |-> <<"v">>]
    ELSE IF h = <<"k", ":", " ", "v", ":", "w">>
    THEN [key |-> <<"k">>, value |-> <<"v", ":", "w">>]
    ELSE [key |-> <<"a">>, value |-> <<"b", " ", "x">>]

\* the key line 160 adds for a JSON body
ContentTypeKey == << "Content-Type" >>

\* C21: header parsing maps each well-formed header string to one entry,
\* split at the first ":" only and with the whitespace around key and value
\* removed: a value that itself contains ":" is kept whole, and of two
\* headers with one key the later gives the entry; the mapping has no other
\* entry but the Content-Type a JSON body adds.
C21_HeaderParsing ==
    Parsed =>
        /\ \A i \in 1..Len(args.header) :
              /\ Entry(args.header[i]).key \in DOMAIN headers
              /\ (\A j \in (i + 1)..Len(args.header) :
                      Entry(args.header[j]).key # Entry(args.header[i]).key)
                    => headers[Entry(args.header[i]).key] = Entry(args.header[i]).value
        /\ (DOMAIN headers) \ {ContentTypeKey}
              = { Entry(args.header[i]).key : i \in 1..Len(args.header) }

\* a value with ":" in it and a header with whitespace around key and value
C21_Witness ==
    /\ phase = "validated"
    /\ args.json = NoneArg
    /\ args.header = << <<"k", ":", " ", "v", ":", "w">>,
                        <<" ", "a", " ", ":", " ", "b", " ", "x", " ">> >>
    /\ headers = [k \in { <<"k">>, <<"a">> } |->
                     IF k = <<"k">> THEN <<"v", ":", "w">> ELSE <<"b", " ", "x">>]

\* worker w's request cycle can end now
CanEndCycle(w) ==
    \E status \in StatusCodes :
        ENABLED (worker_duration_response(w, status) \/ worker_total_response(w, status))

\* C22: a fixed-count worker that finds the queue empty on its dequeue goes
\* to Done at once, and no worker of either mode ever waits for another: a
\* worker has no waiting position, whatever its peers are doing a worker at
\* its loop top has its step (to Done on the empty queue, into a request on
\* a token or before the deadline) and a request in flight can end.
C22_NoWorkerWaits ==
    phase = "running" =>
        \A w \in Workers :
            /\ pc[w] \in {"top", "inflight", "done"}
            /\ (~DurationMode /\ pc[w] = "top" /\ QueueEmpty(q)) =>
                  ENABLED (worker_total_top(w) /\ pc'[w] = "done")
            /\ (~DurationMode /\ pc[w] = "top" /\ ~QueueEmpty(q)) =>
                  ENABLED (worker_total_top(w) /\ pc'[w] = "inflight")
            /\ (DurationMode /\ pc[w] = "top" /\ ~HeldBack(w)) =>
                  ENABLED worker_duration_top(w)
            /\ (pc[w] = "inflight" /\ LoopIdle) => CanEndCycle(w)

\* a fixed-count worker has returned while a peer's request is in flight
C22_Witness ==
    /\ phase = "running"
    /\ ~DurationMode
    /\ \E w, v \in Workers :
          /\ pc[w] = "done"
          /\ cycles[w] = 0
          /\ pc[v] = "inflight"

\* a duration-mode worker has returned while a peer's request is in flight
C22_WitnessDuration ==
    /\ phase = "running"
    /\ DurationMode
    /\ \E w, v \in Workers : pc[w] = "done" /\ pc[v] = "inflight"

\* the workers whose request is in flight
InFlight == { w \in DOMAIN pc : pc[w] = "inflight" }

\* C23: exactly C = concurrency workers are spawned and each has at most
\* one request in flight, so the requests in flight never number more than
\* C, the connection budget of the transport.
C23_InFlightWithinBudget ==
    Spawned =>
        /\ Cardinality(DOMAIN pc) = args.concurrency
        /\ ConnectorLimit = args.concurrency
        /\ Cardinality(InFlight) <= ConnectorLimit
        /\ \A w \in DOMAIN pc : cycles[w] - Finished(w) <= 1

\* C23 for a concurrency that is not negative: the same statement holds.
C23_BudgetForNaturalConcurrency ==
    args.concurrency >= 0 => C23_InFlightWithinBudget

\* the step is a GET, PUT or DELETE of this id
RequestOn(id) ==
    \/ get_item(id)
    \/ \E update_data \in ItemUpdates : update_item(id, update_data)
    \/ delete_item(id)

\* C24: after a successful DELETE of an id, every later GET, PUT or DELETE
\* of that id is answered 404, until a create assigns that id again; and an
\* item created by POST is answered by GET under the returned id, with
\* status 200 and that id, until it is deleted.
C24_DeletedStaysDeleted ==
    [][/\ \A id \in PathIds :
             (id \in gone /\ RequestOn(id)) =>
                 /\ response'.status = 404
                 /\ response'.id = id
                 /\ response'.item = None
       /\ \A id \in PathIds :
             (id \in live /\ get_item(id)) =>
                 /\ response'.status = 200
                 /\ Len(response'.item) = 1
                 /\ response'.item[1].id = id]_vars

\* an item that a create returned and a DELETE removed is asked for again
C24_Witness ==
    /\ Str(InitialCounter + 1) \in gone
    /\ response.id = Str(InitialCounter + 1)
    /\ response.op \in {"GET", "PUT"}
    /\ response.status = 404

\* an item that a create returned is read back
C24_WitnessLive ==
    /\ Str(InitialCounter + 1) \in live
    /\ response.op = "GET"
    /\ response.id = Str(InitialCounter + 1)
    /\ response.status = 200

\* C25: a GET, PUT or DELETE of an id that is not in the store is answered
\* with status 404 and error code NOT_FOUND, and leaves the item store and
\* the id counter as they were.
C25_MissingIdIsNotFound ==
    [][\A id \in PathIds :
          (id \notin DOMAIN items_db /\ RequestOn(id)) =>
              /\ response'.status = 404
              /\ response'.error = "NOT_FOUND"
              /\ response'.id = id
              /\ items_db' = items_db
              /\ item_counter' = item_counter]_vars

\* a PUT of an id that no create has assigned, after a create
C25_Witness ==
    /\ response.op = "PUT"
    /\ response.id = Str(InitialCounter + MaxCreates + 1)
    /\ response.status = 404
    /\ response.error = "NOT_FOUND"
    /\ item_counter > InitialCounter
    /\ response.id \notin DOMAIN items_db

\* what holds of a duration-mode worker in every state
DeadlineRespected(w) ==
    /\ pc[w] = "inflight" => start[w] < deadline
    /\ late[w] <= 1
    /\ late[w] = 1 => pc[w] \in {"top", "done"} /\ now >= deadline
    /\ res[w].reqs + SumValues(res[w].errors) = Finished(w)
    /\ (pc[w] = "inflight" /\ now >= deadline /\ LoopIdle) => CanEndCycle(w)

\* what holds of every step of a duration-mode worker
DeadlineStep(w) ==
    /\ cycles'[w] > cycles[w] => now < deadline
    /\ (pc[w] = "top" /\ pc'[w] # "top" /\ now >= deadline) =>
          pc'[w] = "done" /\ cycles'[w] = cycles[w]
    /\ (pc[w] = "inflight" /\ pc'[w] # "inflight" /\ now >= deadline) =>
          /\ pc'[w] = "top"
          /\ res'[w].reqs + SumValues(res'[w].errors)
                = res[w].reqs + SumValues(res[w].errors) + 1

\* C26: a duration-mode worker tests the deadline at its loop top only: it
\* starts no request cycle once now >= deadline; a request in flight when
\* the deadline passes can end and is recorded; and so at most one request
\* cycle of each worker ends at or after the deadline.
C26_DeadlineCheckedAtLoopTop ==
    /\ []((phase = "running" /\ DurationMode) => \A w \in Workers : DeadlineRespected(w))
    /\ [][(phase = "running" /\ DurationMode) => \A w \in Workers : DeadlineStep(w)]_vars

\* a request in flight when the deadline passed has ended and was recorded
C26_Witness ==
    /\ DurationMode
    /\ phase = "joined"
    /\ \E w \in Workers :
          /\ late[w] = 1
          /\ res[w].latencies = << (deadline - started) * 1000 >>

\* the run has ended for its mode's reason
EndedForCause == IF DurationMode THEN now >= deadline ELSE QueueEmpty(q)

\* every worker eventually reaches Done and the run eventually ends, in its
\* report or in the configuration error
RunTerminates ==
    /\ <>Terminal
    /\ (phase = "running") ~> (Spawned /\ AllTasksDone)
    /\ (phase = "running") ~> (phase = "reported")

\* C27: with every request cycle ending, time advancing and the workers
\* scheduled fairly, every worker eventually reaches Done and the run
\* eventually produces its report, in fixed-count mode once the queue is
\* empty and in duration mode once the deadline has passed; the run ends for
\* no other reason.
C27_RunEndsOnlyForItsCause ==
    /\ RunTerminates
    /\ [](RunEnded => EndedForCause)

\* C27 where at least one worker is spawned: the same statement holds.
C27_EndsForCauseWithWorkers ==
    /\ RunTerminates
    /\ [](args.concurrency >= 1 => (RunEnded => EndedForCause))

\* the step of lines 175-214 that computes the deadline or fills the queue
SpawnStep == phase = "started" /\ phase' = "running"

\* the queue's items after the step are those before it, or those before it
\* without the head
OnlyDequeued ==
    \/ q'.items = q.items
    \/ q.items /= << >> /\ q'.items = Tail(q.items)

\* C28: the shared dispatch state changes only in the permitted way: the
\* step that spawns the workers computes the deadline (duration mode) or
\* leaves exactly request_count tokens in the queue (fixed-count mode); from
\* then on no step changes the deadline, and every step leaves the queue as
\* it was or takes its head item, so that its length never grows.
C28_SharedStateOnlyDequeued ==
    [][/\ SpawnStep =>
            IF DurationMode
            THEN deadline' = now + args.duration
            ELSE Len(q'.items) = args.requests
       /\ Spawned =>
            /\ deadline' = deadline
            /\ OnlyDequeued
            /\ Len(q'.items) <= Len(q.items)]_vars

\* a fixed-count run of more than one token has ended with the queue
\* dequeued down to empty
C28_Witness ==
    /\ CountMode /\ RunEnded
    /\ args.requests >= 2
    /\ Len(q.items) = 0

\* a duration run has ended with the deadline that was computed at the spawn
C28_WitnessDeadline ==
    /\ DurationMode /\ RunEnded
    /\ args.concurrency >= 1
    /\ deadline = started + args.duration

\* a step of worker i: its loop test, or the end of its request cycle
worker_step(i) == worker_top(i) \/ worker_cycle_end(i)

\* no latency, no status count, no error count, no completed request
IsEmptyResult(r) ==
    /\ r.latencies = << >>
    /\ SumValues(r.statuses) = 0
    /\ SumValues(r.errors) = 0
    /\ r.reqs = 0

\* C29: every WorkerResult starts empty and is changed by its owner only:
\* the spawning step leaves every worker with an empty result; a step of
\* worker i leaves the latencies, status counts, error counts and completed
\* count of every other worker unchanged; a step of no worker changes no
\* result; and the result of a worker that has returned never changes.
C29_ResultOwnedByWorker ==
    [][/\ SpawnStep => \A w \in Workers' : IsEmptyResult(res'[w])
       /\ Spawned =>
            /\ \A i \in Workers :
                  worker_step(i) => \A j \in Workers \ {i} : res'[j] = res[j]
            /\ \A i \in Workers : pc[i] \in {"done", "raised"} => res'[i] = res[i]
            /\ (\A i \in Workers : ~worker_step(i)) => res' = res]_vars

\* two workers have returned, one with a completed request and no error, the
\* other with an error and no completed request
C29_Witness ==
    /\ phase = "joined"
    /\ args.concurrency >= 2
    /\ res[0].reqs >= 1 /\ SumValues(res[0].errors) = 0
    /\ res[1].reqs = 0 /\ SumValues(res[1].errors) >= 1

\* the successful get_nowait calls so far: the tokens put less those left
DequeueCount == args.requests - Len(q.items)

\* the task_done calls so far: the tokens put less those unfinished
TaskDoneCount == args.requests - q.unfinished

\* at every point of a fixed-count run the tokens dequeued and not yet
\* marked are those whose request cycle is in flight, so that task_done has
\* been called at most as often as get_nowait has succeeded and no worker
\* has been left by its ValueError
MarkedAtMostOnce ==
    CountMode =>
        /\ DequeueCount - TaskDoneCount = Cardinality(InFlight)
        /\ TaskDoneCount <= DequeueCount
        /\ \A w \in Workers : pc[w] /= "raised"

\* the end of a request cycle marks one token, whatever the outcome, in the
\* step that classifies the cycle, and no other step marks any
MarkedWhenClassified ==
    CountMode =>
        IF \E w \in Workers : pc[w] = "inflight" /\ pc'[w] /= "inflight"
        THEN /\ q'.unfinished = q.unfinished - 1
             /\ SumValues(occurred') = SumValues(occurred) + 1
        ELSE q'.unfinished = q.unfinished

\* at run end as many tokens are marked as were dequeued
MarkedAtRunEnd == (CountMode /\ RunEnded) => TaskDoneCount = DequeueCount

\* at run end no token is unfinished
NoneUnfinishedAtRunEnd == (CountMode /\ RunEnded) => q.unfinished = 0

\* C30: in fixed-count mode every dequeued token is marked processed exactly
\* once, in the step that classifies its request cycle and whatever the
\* outcome: task_done has never been called more often than get_nowait has
\* succeeded (it never raises), and at run end the two counts are equal and
\* no token is unfinished.
C30_EveryTokenMarkedOnce ==
    /\ [](MarkedAtMostOnce /\ MarkedAtRunEnd /\ NoneUnfinishedAtRunEnd)
    /\ [][MarkedWhenClassified]_vars

\* C30 where at least one worker is spawned: the same statement holds.
C30_MarkedOnceWithWorkers ==
    /\ [](MarkedAtMostOnce /\ MarkedAtRunEnd)
    /\ [](args.concurrency >= 1 => NoneUnfinishedAtRunEnd)
    /\ [][MarkedWhenClassified]_vars

\* a fixed-count run with workers has ended with every token dequeued and
\* marked, one of them after an error
C30_MarkedOnceReached ==
    /\ CountMode /\ RunEnded
    /\ args.requests >= 2
    /\ DequeueCount = args.requests /\ TaskDoneCount = args.requests
    /\ \E w \in Workers : SumValues(res[w].errors) >= 1

\* the workers that have started at least one request cycle
ActiveWorkers == { w \in Workers : cycles[w] >= 1 }

\* in a fixed-count run: a worker has returned only with the queue empty
\* (and it stays returned, so the queue stays empty); once a worker has
\* returned every token has been dequeued by some worker; a worker that has
\* started no request cycle has an empty result
ReturnedAfterEmpty ==
    CountMode =>
        /\ \A w \in Workers : pc[w] = "done" => Len(q.items) = 0
        /\ (\E w \in Workers : pc[w] = "done") =>
              \A t \in 1..args.requests : served[t] /= << >>
        /\ \A w \in Workers \ ActiveWorkers : IsEmptyResult(res[w])

\* C31: a fixed-count worker returns only after it has found the queue
\* empty, and the queue is empty from then on; so once any worker has
\* returned every token has been dequeued by some worker, the workers that
\* perform at least one request number at most min(C, request_count), and
\* the other workers return empty results.
C31_ReturnOnlyAfterQueueEmpty ==
    /\ ReturnedAfterEmpty
    /\ CountMode =>
          Cardinality(ActiveWorkers) <= Min(args.concurrency, args.requests)

\* C31 for a concurrency that is not negative: the same statement holds.
C31_ReturnAfterEmptyNaturalConcurrency ==
    args.concurrency >= 0 => C31_ReturnOnlyAfterQueueEmpty

\* more workers than tokens: one worker performed the only request, the
\* other found the queue empty and returned an empty result
C31_FewerTokensThanWorkers ==
    /\ CountMode /\ RunEnded
    /\ args.concurrency > args.requests
    /\ Cardinality(ActiveWorkers) = args.requests
    /\ \E w \in Workers : pc[w] = "done" /\ IsEmptyResult(res[w])

\* the float x is at least the integer a and at most the integer b
Within(x, a, b) == x.kind = "num" /\ a * x.den <= x.num /\ x.num <= b * x.den

\* a call with 0 < p < 100 on an ascending list of at least two values has
\* returned
InterpolatingCall == Returned /\ Len(sorted_vals) >= 2 /\ 0 < p /\ p < 100

\* the branch the call takes and the result at a whole rank: c = f + 1, and
\* a rank k that is a whole number gives values[k]
BranchAndWholeRank ==
    InterpolatingCall =>
        LET n == Len(sorted_vals)
            k == RankOf(n, p)
            f == FloorOf(n, k)
            c == Min(f + 1, n - 1)
        IN /\ c = f + 1
           /\ k.den = 1 => ret[1] = Num(sorted_vals[f + 1], 1)

\* C32: for an ascending list of n >= 2 values and 0 < p < 100, percentile
\* takes the interpolation branch with c = f + 1 (c = f only when n = 1), its
\* result lies between values[f] and values[c] and so between the minimum
\* and the maximum, and a rank k that is a whole number gives values[k].
C32_InterpolationWithinNeighbours ==
    /\ BranchAndWholeRank
    /\ InterpolatingCall =>
          LET n == Len(sorted_vals)
              f == FloorOf(n, RankOf(n, p))
              c == Min(f + 1, n - 1)
          IN /\ Within(ret[1], sorted_vals[f + 1], sorted_vals[c + 1])
             /\ Within(ret[1], sorted_vals[1], sorted_vals[n])

\* C32 where values[f] < values[c]: the same statement holds.
C32_WithinDistinctNeighbours ==
    /\ BranchAndWholeRank
    /\ InterpolatingCall =>
          LET n == Len(sorted_vals)
              f == FloorOf(n, RankOf(n, p))
              c == Min(f + 1, n - 1)
          IN sorted_vals[f + 1] < sorted_vals[c + 1] =>
               /\ Within(ret[1], sorted_vals[f + 1], sorted_vals[c + 1])
               /\ Within(ret[1], sorted_vals[1], sorted_vals[n])

\* a call on two equal values has returned less than both
C32_BelowMinimumReached ==
    /\ InterpolatingCall
    /\ sorted_vals = << 3, 3 >>
    /\ ret[1].num < 3 * ret[1].den

\* a call on values that differ has returned a value strictly between them
C32_InterpolatedReached ==
    /\ InterpolatingCall
    /\ sorted_vals = << 1, 2, 3, 4 >> /\ p = 50
    /\ ret[1] = Num(5, 2)

\* a POST /items assigns an id
CreateStep == \E item \in ItemCreates : create_item(item)

\* every item is stored under its own id
StoredUnderOwnId == \A k \in DOMAIN items_db : items_db[k].id = k

\* C33: over any sequence of create, update and delete operations, every
\* create assigns (and returns) an id that is not in the store and that no
\* earlier create has assigned: the counter never decreases, a create
\* raises it, and a delete frees no id for reuse; and an update changes
\* neither the id of an item nor the key it is stored under.
C33_IdsNeverReused ==
    /\ [](StoredUnderOwnId
           /\ \A item \in creating : item.id \in issued
           /\ (response.op = "POST" /\ response.status = 201) =>
                 response.item[1].id \in issued)
    /\ [][/\ item_counter' >= item_counter
           /\ issued \subseteq issued'
           /\ CreateStep =>
                 /\ item_counter' > item_counter
                 /\ \E id \in DOMAIN items_db' :
                       /\ id \notin DOMAIN items_db
                       /\ id \notin issued
                       /\ issued' = issued \cup {id}
                       /\ DOMAIN items_db' = DOMAIN items_db \cup {id}
           /\ \A id \in PathIds, update_data \in ItemUpdates :
                 update_item(id, update_data) =>
                     /\ DOMAIN items_db' = DOMAIN items_db
                     /\ \A k \in DOMAIN items_db :
                           /\ items_db'[k].id = items_db[k].id
                           /\ k /= id => items_db'[k] = items_db[k]]_vars

\* the first id a create assigned was deleted, the next create was given
\* another id, and the item under it has been renamed by a PUT
C33_Witness ==
    /\ issued = {Str(InitialCounter + 1), Str(InitialCounter + 2)}
    /\ Str(InitialCounter + 1) \notin DOMAIN items_db
    /\ Str(InitialCounter + 1) \in gone
    /\ response.op = "PUT" /\ response.status = 200
    /\ response.id = Str(InitialCounter + 2)
    /\ items_db[Str(InitialCounter + 2)] = [id |-> Str(InitialCounter + 2), name |-> "b"]

====
